---------------------------- MODULE Spec2Model ----------------------------
(***************************************************************************)
(* A model of LaTeX_merge (src/main.py): the comment stripper, the         *)
(* blank-line normaliser, the reference scanner, the recursive directive   *)
(* expander and main()'s pipeline with its two deletion passes.            *)
(*                                                                         *)
(* Text is a sequence of one-character strings, so the regular expressions *)
(* of the source are modelled by what they match, character by character.  *)
(* A path is text too ("/w/figures/p.pdf"); the filesystem maps the paths  *)
(* of the existing files to their contents.                                *)
(***************************************************************************)
EXTENDS Integers, Sequences, FiniteSets, TLC

VARIABLES
    pc,         \* the control point of the run
    args,       \* argparse's result: input_file, output_file and the flags
    fs,         \* the filesystem: path -> content, for every existing file
    dirs,       \* the directories that exist
    content,    \* the local `content` of main() / of the function under study
    stack,      \* the call stack of expand_input_commands, innermost last
    retval,     \* the value returned by the outermost expand_input_commands
    used_pdfs,  \* the set find_used_pdfs builds / main() keeps
    todo,       \* what the loop in progress still has to visit
    log,        \* the diagnostic stream: the warnings and errors printed
    exit_code,  \* the process's exit code, -1 while it runs
    hist        \* history: the inputs and the file operations done so far

vars == <<pc, args, fs, dirs, content, stack, retval, used_pdfs, todo, log,
          exit_code, hist>>

(***************************************************************************)
(* Text.                                                                   *)
(***************************************************************************)
Chars(str) == [i \in 1..Len(str) |-> SubSeq(str, i, i)]

BS == "\\"
NL == "\n"
TAB == "\t"

RECURSIVE Flatten(_)
Flatten(pieces) ==
    IF pieces = <<>> THEN <<>> ELSE Head(pieces) \o Flatten(Tail(pieces))

\* Every text made of at most n chunks of V.
TextsOf(V, n) == { Flatten(cs) : cs \in UNION { [1..k -> V] : k \in 0..n } }

\* s[i..i+Len(w)-1] = w
HasAt(s, i, w) ==
    /\ i >= 1
    /\ i + Len(w) - 1 <= Len(s)
    /\ s[i] = w[1]
    /\ \A k \in 2..Len(w) : s[i + k - 1] = w[k]

\* The regular expressions' \s, restricted to the characters of the model.
IsSpace(c) == c \in {" ", TAB, NL}

\* The end of a greedy \s* that starts at i: the first index at or after i
\* that holds no white space (Len(s)+1 when the text ends first).
SkipSpace(s, i) ==
    CHOOSE j \in i..(Len(s) + 1) :
        /\ j = Len(s) + 1 \/ ~IsSpace(s[j])
        /\ \A k \in i..(j - 1) : IsSpace(s[k])

\* F(x), with x evaluated once before F is entered.
Apply(F(_), x) == CHOOSE r \in { F(v) : v \in {x} } : TRUE

\* The index of the first c at or after i, Len(s)+1 when there is none.
IndexFrom(s, i, c) ==
    CHOOSE j \in i..(Len(s) + 1) :
        /\ j = Len(s) + 1 \/ s[j] = c
        /\ \A k \in i..(j - 1) : s[k] # c

(***************************************************************************)
(* remove_comments, src/main.py lines 11-20.                               *)
(***************************************************************************)
\* (?<!\\)% : a percent sign that the character before it does not escape.
IsCommentStart_NoLookbehind(s, i) == s[i] = "%"

IsCommentStart(s, i) == s[i] = "%" /\ (i = 1 \/ s[i - 1] # BS)

\* re.sub(r'(?<!\\)%.*?$', '', content, flags=re.MULTILINE): with MULTILINE
\* `$` holds before a newline and at the end; `.` matches no newline.
RECURSIVE LineCommentScan(_, _)
LineCommentScan(s, i) ==
    LET p == IndexFrom(s, i, "%")
    IN  IF p > Len(s) THEN SubSeq(s, i, Len(s))
        ELSE IF IsCommentStart(s, p)
        THEN SubSeq(s, i, p - 1) \o LineCommentScan(s, IndexFrom(s, p, NL))
        ELSE SubSeq(s, i, p) \o LineCommentScan(s, p + 1)

RemoveLineComments(s) == LineCommentScan(s, 1)

\* The literal parts of the patterns.
kw_begin == Chars("\\begin")
kw_end == Chars("\\end")
kw_comment == Chars("comment")
kw_iffalse == Chars("\\iffalse")
kw_fi == Chars("\\fi")

\* \\begin\s*\{\s*comment\s*\} (word = "\begin") and its \\end twin: the index
\* after the delimiter that starts at i, 0 when none starts there.
EnvDelimEnd(s, i, word) ==
    IF ~HasAt(s, i, word) THEN 0
    ELSE LET j == SkipSpace(s, i + Len(word))
             k == SkipSpace(s, j + 1)
             l == SkipSpace(s, k + Len(kw_comment))
         IN  IF /\ j <= Len(s) /\ s[j] = "{"
                /\ HasAt(s, k, kw_comment)
                /\ l <= Len(s) /\ s[l] = "}"
             THEN l + 1 ELSE 0

BeginCommentEnd(s, i) == EnvDelimEnd(s, i, kw_begin)
EndCommentEnd(s, i) == EnvDelimEnd(s, i, kw_end)
IfFalseEnd(s, i) == IF HasAt(s, i, kw_iffalse) THEN i + Len(kw_iffalse) ELSE 0
FiEnd(s, i) == IF HasAt(s, i, kw_fi) THEN i + Len(kw_fi) ELSE 0

\* The two block patterns: the comment environment and \iffalse ... \fi.
OpenEnd(s, i, kind) ==
    IF kind = "comment" THEN BeginCommentEnd(s, i) ELSE IfFalseEnd(s, i)

CloseEnd(s, i, kind) ==
    IF kind = "comment" THEN EndCommentEnd(s, i) ELSE FiEnd(s, i)

\* open.*?close with DOTALL, tried at i: the index after the match, 0 when
\* there is none. The lazy .*? stops at the first close after the opener.
BlockEnd(s, i, kind) ==
    LET o == OpenEnd(s, i, kind)
    IN  IF o = 0 THEN 0
        ELSE LET closes == { p \in o..Len(s) : CloseEnd(s, p, kind) # 0 }
             IN  IF closes = {} THEN 0
                 ELSE CloseEnd(s, CHOOSE p \in closes : \A q \in closes : p <= q,
                               kind)

\* re.sub(pattern, '', s): the leftmost match, then the next one after it.
\* Both patterns start with a backslash, so the scan goes from one backslash
\* to the next.
RECURSIVE BlockScan(_, _, _)
BlockScan(s, i, kind) ==
    LET b == IndexFrom(s, i, BS)
    IN  IF b > Len(s) THEN SubSeq(s, i, Len(s))
        ELSE LET e == BlockEnd(s, b, kind)
             IN  IF e # 0 THEN SubSeq(s, i, b - 1) \o BlockScan(s, e, kind)
                 ELSE SubSeq(s, i, b) \o BlockScan(s, b + 1, kind)

RemoveCommentEnv(s) == BlockScan(s, 1, "comment")
RemoveIfFalse(s) == BlockScan(s, 1, "iffalse")

remove_comments(s) ==
    Apply(RemoveIfFalse, Apply(RemoveCommentEnv, Apply(RemoveLineComments, s)))

(***************************************************************************)
(* remove_excessive_blank_lines, src/main.py lines 22-32.                  *)
(***************************************************************************)
\* The end of a greedy [ \t]* that starts at i.
SkipBlanks(s, i) ==
    CHOOSE j \in i..(Len(s) + 1) :
        /\ j = Len(s) + 1 \/ s[j] \notin {" ", TAB}
        /\ \A k \in i..(j - 1) : s[k] \in {" ", TAB}

\* ([ \t]*\n)* tried greedily at i, n groups matched so far: <<the index
\* after the last group, the number of groups>>.
RECURSIVE BlankGroups(_, _, _)
BlankGroups(s, i, n) ==
    LET k == SkipBlanks(s, i)
    IN  IF k <= Len(s) /\ s[k] = NL THEN BlankGroups(s, k + 1, n + 1)
        ELSE <<i, n>>

\* {2,} of the pattern.
MinBlankGroups == 2

\* The pattern with {3,} for {2,}.
BlankRunEnd_ThreeGroups(s, i) ==
    IF s[i] # NL THEN 0
    ELSE LET g == BlankGroups(s, i + 1, 0)
         IN  IF g[2] >= MinBlankGroups + 1 THEN g[1] ELSE 0

\* \n([ \t]*\n){2,} tried at i: the index after the match, 0 when none.
BlankRunEnd(s, i) ==
    IF s[i] # NL THEN 0
    ELSE LET g == BlankGroups(s, i + 1, 0)
         IN  IF g[2] >= MinBlankGroups THEN g[1] ELSE 0

RECURSIVE BlankScan(_, _)
BlankScan(s, i) ==
    IF i > Len(s) THEN <<>>
    ELSE LET e == BlankRunEnd(s, i)
         IN  IF e # 0 THEN <<NL, NL>> \o BlankScan(s, e)
             ELSE <<s[i]>> \o BlankScan(s, i + 1)

remove_excessive_blank_lines(s) == BlankScan(s, 1)

(***************************************************************************)
(* Paths: os.path on POSIX, over text. The process's working directory is  *)
(* Cwd.                                                                    *)
(***************************************************************************)
SLASH == "/"
DOT == "."
Cwd == Chars("/w")

\* The index of the last c in s, 0 when there is none (str.rfind, 1-based).
LastIndexOf(s, c) ==
    LET at == { j \in 1..Len(s) : s[j] = c }
    IN  IF at = {} THEN 0 ELSE CHOOSE j \in at : \A k \in at : k <= j

\* str.split('/'), from index i on
RECURSIVE SplitFrom(_, _)
SplitFrom(s, i) ==
    LET j == IndexFrom(s, i, SLASH)
    IN  IF j > Len(s) THEN <<SubSeq(s, i, Len(s))>>
        ELSE <<SubSeq(s, i, j - 1)>> \o SplitFrom(s, j + 1)

SplitPath(s) == SplitFrom(s, 1)

\* posixpath.normpath's loop over the first k components of an absolute
\* path: empty and "." components are dropped, ".." drops the component
\* before it.
RECURSIVE NormComps(_, _)
NormComps(comps, k) ==
    IF k = 0 THEN <<>>
    ELSE IF comps[k] = <<>> \/ comps[k] = <<DOT>> THEN NormComps(comps, k - 1)
    ELSE IF comps[k] = <<DOT, DOT>>
    THEN Apply(LAMBDA done : SubSeq(done, 1, Len(done) - 1),
               NormComps(comps, k - 1))
    ELSE Append(NormComps(comps, k - 1), comps[k])

RECURSIVE JoinComps(_, _)
JoinComps(comps, k) ==
    IF k > Len(comps) THEN <<>>
    ELSE <<SLASH>> \o comps[k] \o JoinComps(comps, k + 1)

\* posixpath.normpath of an absolute path. POSIX keeps exactly two leading
\* slashes apart from one.
NormPath(path) ==
    Apply(LAMBDA comps :
            (IF HasAt(path, 1, <<SLASH, SLASH>>) /\ ~HasAt(path, 1, <<SLASH, SLASH, SLASH>>)
             THEN <<SLASH>> ELSE <<>>)
            \o (IF NormComps(comps, Len(comps)) = <<>> THEN <<SLASH>>
                ELSE Apply(LAMBDA done : JoinComps(done, 1),
                           NormComps(comps, Len(comps)))),
          SplitPath(path))

IsAbs(path) == path # <<>> /\ path[1] = SLASH

\* os.path.join(a, b)
PathJoin(a, b) ==
    IF IsAbs(b) THEN b
    ELSE IF a = <<>> \/ a[Len(a)] = SLASH THEN a \o b
    ELSE a \o <<SLASH>> \o b

\* os.path.abspath(path): normpath(join(os.getcwd(), path))
AbsPath(path) == Apply(NormPath, PathJoin(Cwd, path))

\* os.path.dirname(path): the text up to the last slash, without the slashes
\* at its end unless it consists of slashes.
Dirname(path) ==
    LET inked == { k \in 1..LastIndexOf(path, SLASH) : path[k] # SLASH }
    IN  IF inked = {} THEN SubSeq(path, 1, LastIndexOf(path, SLASH))
        ELSE SubSeq(path, 1, CHOOSE k \in inked : \A l \in inked : l <= k)

\* os.path.basename(path)
Basename(path) == SubSeq(path, LastIndexOf(path, SLASH) + 1, Len(path))

\* os.path.splitext(path)[1]: the text from the last dot of the last
\* component on, unless only dots stand before it in that component.
SplitExt(path) ==
    LET sep == LastIndexOf(path, SLASH)
        dot == LastIndexOf(path, DOT)
    IN  IF dot > sep /\ \E k \in (sep + 1)..(dot - 1) : path[k] # DOT
        THEN SubSeq(path, dot, Len(path))
        ELSE <<>>

\* str.strip()
StripSpace(s) ==
    LET inked == { j \in 1..Len(s) : ~IsSpace(s[j]) }
    IN  IF inked = {} THEN <<>>
        ELSE SubSeq(s, CHOOSE j \in inked : \A k \in inked : j <= k,
                       CHOOSE j \in inked : \A k \in inked : k <= j)

\* The filesystem: f maps the paths of the regular files to their contents,
\* d is the set of directories.
IsFile(f, path) == path \in DOMAIN f
\* os.path.exists(path)
Exists(f, d, path) == AbsPath(path) \in DOMAIN f \/ AbsPath(path) \in d

\* The directories a file at `path` lies in, the root excluded.
RECURSIVE Ancestors(_)
Ancestors(path) ==
    LET up == Dirname(path)
    IN  IF up = <<SLASH>> THEN {} ELSE {up} \cup Ancestors(up)

(***************************************************************************)
(* expand_input_commands, src/main.py lines 96-150.                        *)
(***************************************************************************)
kw_input == Chars("\\input")
kw_include == Chars("\\include")
ext_tex == Chars(".tex")

NoMatch == [start |-> 0, end |-> 0, group |-> <<>>]

\* \{ ... ([^}]+) ... \} tried at i, where the brace must stand: the index
\* after the closing brace, 0 when the pattern does not match there.
BraceArgEnd(s, i) ==
    IF i > Len(s) \/ s[i] # "{" THEN 0
    ELSE LET close == IndexFrom(s, i + 1, "}")
         IN  IF close <= Len(s) /\ close > i + 1 THEN close + 1 ELSE 0

\* \\(?:input|include)\s*\{\s*([^}]+)\s*\} tried at i.
InputMatchAt(s, i) ==
    LET after == IF HasAt(s, i, kw_input) THEN i + Len(kw_input)
                 ELSE IF HasAt(s, i, kw_include) THEN i + Len(kw_include)
                 ELSE 0
    IN  IF after = 0 THEN NoMatch
        ELSE LET open == SkipSpace(s, after)
                 e == BraceArgEnd(s, open)
             IN  IF e = 0 THEN NoMatch
                 ELSE [start |-> i, end |-> e,
                       group |-> SubSeq(s, open + 1, e - 2)]

\* The next match of input_pattern.finditer at or after i. The pattern
\* starts with a backslash, so the search goes from one backslash to the next.
RECURSIVE NextInputMatch(_, _)
NextInputMatch(s, i) ==
    Apply(LAMBDA b :
            IF b > Len(s) THEN NoMatch
            ELSE Apply(LAMBDA m : IF m.start # 0 THEN m
                                  ELSE NextInputMatch(s, b + 1),
                       InputMatchAt(s, b)),
          IndexFrom(s, i, BS))

\* lines 109-112: the file name of the directive, trimmed, with .tex added
\* when it has no extension.
Filename(group) ==
    LET stripped == StripSpace(group)
    IN  IF SplitExt(stripped) = <<>> THEN stripped \o ext_tex ELSE stripped

\* lines 115-116
Filepath(base_dir, filename) == AbsPath(PathJoin(base_dir, filename))

IncludePath(group, base_dir) == Filepath(base_dir, Filename(group))

\* The interpreter's recursion limit, counted in calls of
\* expand_input_commands that may be active at once.
RecursionLimit == 3

NewFrame(text, base_dir) ==
    [content |-> text, base_dir |-> base_dir, last_end |-> 0,
     processed |-> <<>>, cuts |-> {}]

\* The innermost call and the match its loop is at.
Top == stack[Len(stack)]
TopMatch == NextInputMatch(Top.content, Top.last_end + 1)

\* Line 107 left out: the text before the match is not appended.
Advance_DropsBefore(frame, m, piece, pieceCuts) ==
    [frame EXCEPT
       !.processed = @ \o piece,
       !.last_end = m.end - 1,
       !.cuts = @ \cup {Len(frame.processed), Len(frame.processed) + Len(piece)}
                  \cup { Len(frame.processed) + c : c \in pieceCuts }]

\* Line 107, then line 145: the text before the match is appended and the
\* loop moves behind the match. `cuts` is history: the offsets in
\* `processed` at which two pieces were put together.
Advance(frame, m, piece, pieceCuts) ==
    LET before == SubSeq(frame.content, frame.last_end + 1, m.start - 1)
        at == Len(frame.processed) + Len(before)
    IN  [frame EXCEPT
           !.processed = @ \o before \o piece,
           !.last_end = m.end - 1,
           !.cuts = @ \cup {Len(frame.processed), at, at + Len(piece)}
                      \cup { at + c : c \in pieceCuts }]

ReplaceTop(frame) == [stack EXCEPT ![Len(stack)] = frame]

ExpandUnchanged == UNCHANGED <<args, fs, dirs, used_pdfs, todo, exit_code>>

NoteDepth(h, d) == [h EXCEPT !.max_depth = IF d > @ THEN d ELSE @]

\* lines 118-132, the call: the file is read, its comments are removed and
\* expand_input_commands is entered for its text.
ExpandCall ==
    /\ pc = "expanding"
    /\ \E match \in {TopMatch} :
        /\ match.start # 0
        /\ \E filename \in {Filename(match.group)} :
           \E filepath \in {Filepath(Top.base_dir, filename)} :
            /\ IsFile(fs, filepath)
            /\ Len(stack) < RecursionLimit
            /\ \E file_content \in {remove_comments(fs[filepath])} :
                stack' = Append(stack, NewFrame(file_content, Dirname(filepath)))
    /\ hist' = NoteDepth(hist, Len(stack))
    /\ UNCHANGED <<pc, content, retval, log>>
    /\ ExpandUnchanged

\* Line 137 as it stands in the comment: the directive is kept in the text.
ExpandMissing_KeepsDirective ==
    /\ pc = "expanding"
    /\ \E match \in {TopMatch} :
        /\ match.start # 0
        /\ \E filename \in {Filename(match.group)} :
           \E filepath \in {Filepath(Top.base_dir, filename)} :
            /\ ~IsFile(fs, filepath)
            /\ filepath \notin dirs
            /\ stack' = ReplaceTop(Advance(Top, match,
                           SubSeq(Top.content, match.start, match.end - 1), {}))
            /\ log' = Append(log, <<"Warning", filepath>>)
    /\ UNCHANGED <<pc, content, retval, hist>>
    /\ ExpandUnchanged

\* lines 134-137: the file does not exist; a warning, and nothing is put in
\* the directive's place.
ExpandMissing ==
    /\ pc = "expanding"
    /\ \E match \in {TopMatch} :
        /\ match.start # 0
        /\ \E filename \in {Filename(match.group)} :
           \E filepath \in {Filepath(Top.base_dir, filename)} :
            /\ ~IsFile(fs, filepath)
            /\ filepath \notin dirs
            /\ Ancestors(filepath) \cap DOMAIN fs = {}
            /\ stack' = ReplaceTop(Advance(Top, match, <<>>, {}))
            /\ log' = Append(log, <<"Warning", filepath>>)
    /\ UNCHANGED <<pc, content, retval, hist>>
    /\ ExpandUnchanged

\* The handler of lines 139-142 left out: the exception leaves the call.
ExpandError_Uncaught ==
    /\ pc = "expanding"
    /\ \E match \in {TopMatch} :
        /\ match.start # 0
        /\ \E filename \in {Filename(match.group)} :
           \E filepath \in {Filepath(Top.base_dir, filename)} :
            \/ filepath \in dirs
            \/ Ancestors(filepath) \cap DOMAIN fs # {}
            \/ IsFile(fs, filepath) /\ Len(stack) >= RecursionLimit
    /\ pc' = "raised"
    /\ UNCHANGED <<stack, log, content, retval, hist>>
    /\ ExpandUnchanged

\* lines 139-142: any other exception of the try block. Here: the path is a
\* directory, a regular file stands where the path needs a directory, or the
\* call would exceed the recursion limit (RecursionError is an Exception,
\* and the innermost active try block is this one).
ExpandError ==
    /\ pc = "expanding"
    /\ \E match \in {TopMatch} :
        /\ match.start # 0
        /\ \E filename \in {Filename(match.group)} :
           \E filepath \in {Filepath(Top.base_dir, filename)} :
            /\ \/ filepath \in dirs
               \/ Ancestors(filepath) \cap DOMAIN fs # {}
               \/ IsFile(fs, filepath) /\ Len(stack) >= RecursionLimit
            /\ stack' = ReplaceTop(Advance(Top, match, <<>>, {}))
            /\ log' = Append(log, <<"Error", filepath>>)
    /\ UNCHANGED <<pc, content, retval, hist>>
    /\ ExpandUnchanged

\* lines 147-150, and line 132 in the caller: the rest of the text is
\* appended and the result is handed to the caller, which appends it.
ExpandReturn ==
    /\ pc = "expanding"
    /\ TopMatch.start = 0
    /\ \E result \in {Top.processed
                       \o SubSeq(Top.content, Top.last_end + 1, Len(Top.content))} :
       \E resultCuts \in {Top.cuts \cup {Len(Top.processed), Len(result)}} :
        IF Len(stack) = 1
        THEN /\ stack' = <<>>
             /\ retval' = result
             /\ hist' = [hist EXCEPT !.cuts = resultCuts]
             /\ pc' = "expanded"
        ELSE \E caller \in {stack[Len(stack) - 1]} :
             \E match \in {NextInputMatch(caller.content, caller.last_end + 1)} :
                /\ stack' = Append(SubSeq(stack, 1, Len(stack) - 2),
                                   Advance(caller, match, result, resultCuts))
                /\ UNCHANGED <<retval, hist, pc>>
    /\ UNCHANGED <<content, log>>
    /\ ExpandUnchanged

Expand ==
    \/ ExpandCall
    \/ ExpandMissing
    \/ ExpandError
    \/ ExpandReturn

(***************************************************************************)
(* find_used_pdfs, src/main.py lines 34-93.                                *)
(***************************************************************************)
upper_letters == Chars("ABCDEFGHIJKLMNOPQRSTUVWXYZ")
lower_letters == Chars("abcdefghijklmnopqrstuvwxyz")
digits == Chars("0123456789")

LowerMap ==
    [c \in { upper_letters[k] : k \in DOMAIN upper_letters } |->
        lower_letters[CHOOSE k \in DOMAIN upper_letters : upper_letters[k] = c]]

\* str.lower(), and the folding of re.IGNORECASE, for one character
Lower(c) == IF c \in DOMAIN LowerMap THEN LowerMap[c] ELSE c

LowerText(s) == [k \in 1..Len(s) |-> Lower(s[k])]

\* [a-zA-Z0-9_\-]
NameChars ==
    { upper_letters[k] : k \in DOMAIN upper_letters }
        \cup { lower_letters[k] : k \in DOMAIN lower_letters }
        \cup { digits[k] : k \in DOMAIN digits } \cup {"_", "-"}

\* s[i..] starts with w, letters compared without case (w is lower case).
HasAtCI(s, i, w) ==
    /\ i >= 1
    /\ i + Len(w) - 1 <= Len(s)
    /\ \A k \in 1..Len(w) : Lower(s[i + k - 1]) = w[k]

kw_includegraphics == Chars("\\includegraphics")
kw_includepdf == Chars("\\includepdf")
kw_pdfximage == Chars("\\pdfximage")
kw_caption == Chars("\\caption{")
ext_pdf == Chars(".pdf")

\* filename.lower().endswith('.pdf')
EndsWithPdf(filename) ==
    Len(filename) >= Len(ext_pdf)
        /\ HasAtCI(filename, Len(filename) - Len(ext_pdf) + 1, ext_pdf)

\* No newline in s[from..to]: what `.` may match.
NoNewline(s, from, to) == \A k \in from..to : s[k] # NL

\* \{([^}]+)\} tried at i.
BraceMatch(s, start, i) ==
    IF BraceArgEnd(s, i) = 0 THEN NoMatch
    ELSE [start |-> start, end |-> BraceArgEnd(s, i),
          group |-> SubSeq(s, i + 1, BraceArgEnd(s, i) - 2)]

\* cmd(?:\[.*?\])?\{([^}]+)\} tried at i (patterns 1 and 2), and
\* cmd\{([^}]+)\} (pattern 3, options = FALSE). The lazy .*? ends at the
\* first bracket behind which the braces match.
CommandMatchAt(s, i, cmd, options) ==
    IF ~HasAtCI(s, i, cmd) THEN NoMatch
    ELSE Apply(LAMBDA j :
            IF options /\ j <= Len(s) /\ s[j] = "["
            THEN LET closers == { r \in (j + 1)..Len(s) :
                                    /\ s[r] = "]"
                                    /\ NoNewline(s, j + 1, r - 1)
                                    /\ BraceArgEnd(s, r + 1) # 0 }
                 IN  IF closers = {} THEN NoMatch
                     ELSE BraceMatch(s, i, 1 + CHOOSE r \in closers :
                                                  \A q \in closers : r <= q)
            ELSE BraceMatch(s, i, j),
          i + Len(cmd))

\* The end of a greedy [a-zA-Z0-9_\-]* that starts at g.
NameRunEnd(s, g) ==
    CHOOSE e \in g..(Len(s) + 1) :
        /\ e = Len(s) + 1 \/ s[e] \notin NameChars
        /\ \A k \in g..(e - 1) : s[k] \in NameChars

\* ([a-zA-Z0-9_\-]+\.pdf).*?\} tried at g: the index after the match, 0
\* when there is none. The name can only end where its characters end.
CaptionTailEnd(s, g) ==
    Apply(LAMBDA e :
            IF e = g \/ ~HasAtCI(s, e, ext_pdf) THEN 0
            ELSE Apply(LAMBDA close :
                         IF close <= Len(s)
                            /\ NoNewline(s, e + Len(ext_pdf), close - 1)
                         THEN close + 1 ELSE 0,
                       IndexFrom(s, e + Len(ext_pdf), "}")),
          NameRunEnd(s, g))

\* \\caption\{.*?([a-zA-Z0-9_\-]+\.pdf).*?\} tried at i (pattern 4). The
\* lazy .*? before the group ends at the first place from which the rest
\* matches.
CaptionMatchAt(s, i) ==
    IF ~HasAtCI(s, i, kw_caption) THEN NoMatch
    ELSE Apply(LAMBDA j :
            LET starts == { g \in j..Len(s) :
                              NoNewline(s, j, g - 1) /\ CaptionTailEnd(s, g) # 0 }
            IN  IF starts = {} THEN NoMatch
                ELSE Apply(LAMBDA g :
                             [start |-> i, end |-> CaptionTailEnd(s, g),
                              group |-> SubSeq(s, g, NameRunEnd(s, g)
                                                       + Len(ext_pdf) - 1)],
                           CHOOSE g \in starts : \A q \in starts : g <= q),
          i + Len(kw_caption))

\* The number of entries of `patterns`, lines 39-45.
NumPatterns == 4

PatternMatchAt(s, i, k) ==
    IF k = 1 THEN CommandMatchAt(s, i, kw_includegraphics, TRUE)
    ELSE IF k = 2 THEN CommandMatchAt(s, i, kw_includepdf, TRUE)
    ELSE IF k = 3 THEN CommandMatchAt(s, i, kw_pdfximage, FALSE)
    ELSE CaptionMatchAt(s, i)

\* The next match of re.finditer(patterns[k], s, re.IGNORECASE) at or after
\* i. Every pattern starts with a backslash.
RECURSIVE NextPatternMatch(_, _, _)
NextPatternMatch(s, i, k) ==
    Apply(LAMBDA b :
            IF b > Len(s) THEN NoMatch
            ELSE Apply(LAMBDA m : IF m.start # 0 THEN m
                                  ELSE NextPatternMatch(s, b + 1, k),
                       PatternMatchAt(s, b, k)),
          IndexFrom(s, i, BS))

\* lines 51-64: the trimmed file name, with .pdf added when it has no
\* extension at all.
PdfFilename(group) ==
    Apply(LAMBDA filename :
            IF ~EndsWithPdf(filename) /\ SplitExt(Basename(filename)) = <<>>
            THEN filename \o ext_pdf ELSE filename,
          StripSpace(group))

\* line 82
possible_dirs ==
    <<Chars("."), Chars("figures"), Chars("images"), Chars("img"),
      Chars("graphics")>>

\* lines 84-89 without the break: every directory that holds the file adds
\* its path.
PathsInDirs_NoBreak(f, d, filename) ==
    { AbsPath(PathJoin(possible_dirs[k], filename)) :
        k \in { n \in DOMAIN possible_dirs :
                  Exists(f, d, PathJoin(possible_dirs[n], filename)) } }

\* lines 84-89: the path in the first of possible_dirs that holds the file.
PathsInDirs(f, d, filename) ==
    LET hits == { k \in DOMAIN possible_dirs :
                    Exists(f, d, PathJoin(possible_dirs[k], filename)) }
    IN  IF hits = {} THEN {}
        ELSE { AbsPath(PathJoin(possible_dirs[ CHOOSE k \in hits :
                                                 \A n \in hits : k <= n ],
                                filename)) }

\* lines 67-89: the paths one match adds to used_pdfs.
PdfPaths(f, d, filename) ==
    IF ~EndsWithPdf(filename) THEN {}
    ELSE IF Exists(f, d, filename) THEN {AbsPath(filename)}
    ELSE PathsInDirs(f, d, filename)

ScanUnchanged ==
    UNCHANGED <<args, fs, dirs, content, retval, todo, log, exit_code>>

\* The call's frame and the next match of its pattern.
ScanMatchOf(frame) == NextPatternMatch(content, frame.pos, frame.pattern)

\* lines 50-89: one match of the pattern at hand.
ScanMatch ==
    /\ pc = "scanning"
    /\ \E frame \in {stack[1]} : \E match \in {ScanMatchOf(frame)} :
        /\ match.start # 0
        /\ \E filename \in {PdfFilename(match.group)} :
           \E added \in {PdfPaths(fs, dirs, filename)} :
            /\ used_pdfs' = used_pdfs \cup added
            /\ hist' = [hist EXCEPT
                          !.matches = Append(@, [group |-> match.group,
                                                 added |-> added])]
        /\ stack' = <<[frame EXCEPT !.pos = match.end]>>
    /\ pc' = pc
    /\ ScanUnchanged

\* line 47: the matches of one pattern are used up, the next pattern.
ScanNextPattern ==
    /\ pc = "scanning"
    /\ \E frame \in {stack[1]} :
        /\ ScanMatchOf(frame).start = 0
        /\ frame.pattern < NumPatterns
        /\ stack' = <<[pattern |-> frame.pattern + 1, pos |-> 1]>>
    /\ UNCHANGED <<pc, used_pdfs, hist>>
    /\ ScanUnchanged

\* line 93
ScanReturn ==
    /\ pc = "scanning"
    /\ \E frame \in {stack[1]} :
        /\ ScanMatchOf(frame).start = 0
        /\ frame.pattern = NumPatterns
    /\ stack' = <<>>
    /\ pc' = "scanned"
    /\ UNCHANGED <<used_pdfs, hist>>
    /\ ScanUnchanged

Scan ==
    \/ ScanMatch
    \/ ScanNextPattern
    \/ ScanReturn

(***************************************************************************)
(* glob.glob(root + '/**/' + '*' + ext, recursive=True), src/main.py lines *)
(* 158 and 170: the paths below root whose name ends in ext. Neither `**`  *)
(* nor `*` matches a name that starts with a dot, and the suffix is        *)
(* compared with case.                                                     *)
(***************************************************************************)
Below(root, path) ==
    /\ Len(path) > Len(root) + 1
    /\ HasAt(path, 1, root)
    /\ path[Len(root) + 1] = SLASH

GlobRecursive(f, d, root, ext) ==
    { path \in DOMAIN f \cup d :
        /\ Below(root, path)
        /\ \A c \in { SplitPath(SubSeq(path, Len(root) + 2, Len(path)))[k] :
                        k \in 1..Len(SplitPath(SubSeq(path, Len(root) + 2,
                                                      Len(path)))) } :
              c # <<>> /\ c[1] # DOT
        /\ HasAt(path, Len(path) - Len(ext) + 1, ext) }

\* os.remove(path) has succeeded.
Removed(f, path) == [q \in DOMAIN f \ {path} |-> f[q]]

\* open(path, 'w') and f.write(text) have succeeded.
Written(f, path, text) ==
    [q \in DOMAIN f \cup {path} |-> IF q = path THEN text ELSE f[q]]

(***************************************************************************)
(* main and delete_unused_files, src/main.py lines 162-295.                *)
(***************************************************************************)
\* line 234
output_file_abs_path == AbsPath(args.output_file)

MainUnchanged == UNCHANGED <<args, stack, retval, used_pdfs, todo, hist>>

\* lines 236-238
CheckInputExists ==
    /\ pc = "check_exists"
    /\ IF Exists(fs, dirs, args.input_file)
       THEN pc' = "check_same" /\ UNCHANGED <<log, exit_code>>
       ELSE /\ log' = Append(log, <<"InputNotFound", args.input_file>>)
            /\ exit_code' = 1
            /\ pc' = "exited"
    /\ UNCHANGED <<fs, dirs, content>>
    /\ MainUnchanged

\* The check of lines 240-242 left out.
CheckSamePath_Skipped ==
    /\ pc = "check_same"
    /\ pc' = "reading"
    /\ UNCHANGED <<log, exit_code, fs, dirs, content>>
    /\ MainUnchanged

\* lines 240-242
CheckSamePath ==
    /\ pc = "check_same"
    /\ IF AbsPath(args.input_file) # output_file_abs_path
       THEN pc' = "reading" /\ UNCHANGED <<log, exit_code>>
       ELSE /\ log' = Append(log, <<"SamePath", args.input_file>>)
            /\ exit_code' = 1
            /\ pc' = "exited"
    /\ UNCHANGED <<fs, dirs, content>>
    /\ MainUnchanged

\* lines 246-247: the main file is read.
ReadMain ==
    /\ pc = "reading"
    /\ IsFile(fs, AbsPath(args.input_file))
    /\ content' = fs[AbsPath(args.input_file)]
    /\ pc' = "stripping"
    /\ UNCHANGED <<fs, dirs, log, exit_code>>
    /\ MainUnchanged

\* lines 246-247 raise: the path is a directory, or the file cannot be read
\* or decoded.
ReadFault ==
    /\ pc = "reading"
    /\ pc' = "raised"
    /\ UNCHANGED <<fs, dirs, content, log, exit_code>>
    /\ MainUnchanged

\* line 256
StripMain ==
    /\ pc = "stripping"
    /\ content' = remove_comments(content)
    /\ pc' = "expand_call"
    /\ UNCHANGED <<fs, dirs, log, exit_code>>
    /\ MainUnchanged

\* lines 250-252 and the call of line 261
ExpandMain ==
    /\ pc = "expand_call"
    /\ stack' = <<NewFrame(content, Dirname(AbsPath(args.input_file)))>>
    /\ pc' = "expanding"
    /\ UNCHANGED <<args, fs, dirs, content, retval, used_pdfs, todo, log,
                   exit_code, hist>>

\* line 261, the assignment, and line 265
NormalizeMain ==
    /\ pc = "expanded"
    /\ content' = remove_excessive_blank_lines(retval)
    /\ pc' = "scan_call"
    /\ UNCHANGED <<fs, dirs, log, exit_code>>
    /\ MainUnchanged

\* the call of line 269
ScanMain ==
    /\ pc = "scan_call"
    /\ stack' = <<[pattern |-> 1, pos |-> 1]>>
    /\ used_pdfs' = {}
    /\ pc' = "scanning"
    /\ UNCHANGED <<args, fs, dirs, content, retval, todo, log, exit_code, hist>>

\* line 277: os.makedirs(..., exist_ok=True) raises when a regular file is
\* in the way.
MakeDirs ==
    /\ pc = "scanned"
    /\ IF Ancestors(output_file_abs_path) \cap DOMAIN fs = {}
       THEN /\ dirs' = dirs \cup Ancestors(output_file_abs_path)
            /\ pc' = "writing"
       ELSE /\ pc' = "raised"
            /\ UNCHANGED dirs
    /\ UNCHANGED <<fs, content, log, exit_code>>
    /\ MainUnchanged

\* lines 278-280
WriteOutput ==
    /\ pc = "writing"
    /\ output_file_abs_path \notin dirs
    /\ fs' = Written(fs, output_file_abs_path, content)
    /\ log' = Append(log, <<"Written", output_file_abs_path>>)
    /\ pc' = "written"
    /\ UNCHANGED <<dirs, content, exit_code>>
    /\ MainUnchanged

\* lines 278-279 raise: the file cannot be opened (a directory, no
\* permission), or it is opened, and so emptied, and the write fails.
WriteFault ==
    /\ pc = "writing"
    /\ \/ UNCHANGED fs
       \/ /\ output_file_abs_path \notin dirs
          /\ fs' = Written(fs, output_file_abs_path, <<>>)
    /\ pc' = "raised"
    /\ UNCHANGED <<dirs, content, log, exit_code>>
    /\ MainUnchanged

DeleteUnchanged == UNCHANGED <<args, dirs, content, stack, retval, used_pdfs, hist>>

\* lines 164-170
DeleteTexStart ==
    /\ pc = "written"
    /\ todo' = IF args.delete_tex
               THEN GlobRecursive(fs, dirs, Dirname(output_file_abs_path), ext_tex)
               ELSE {}
    /\ pc' = "deleting_tex"
    /\ UNCHANGED <<fs, log, exit_code>>
    /\ DeleteUnchanged

\* lines 177-182 and 206-211: os.remove succeeds or raises.
Remove(path) ==
    \/ /\ IsFile(fs, path)
       /\ fs' = Removed(fs, path)
       /\ log' = Append(log, <<"Deleted", path>>)
    \/ /\ UNCHANGED fs
       /\ log' = Append(log, <<"CannotDelete", path>>)

\* The test of line 176 left out.
DeleteTexFile_NoOutputTest ==
    /\ pc = "deleting_tex"
    /\ \E path \in todo :
        /\ Remove(path)
        /\ todo' = todo \ {path}
    /\ UNCHANGED <<pc, exit_code>>
    /\ DeleteUnchanged

\* lines 173-184, one file
DeleteTexFile ==
    /\ pc = "deleting_tex"
    /\ \E path \in todo :
        /\ IF path # output_file_abs_path
           THEN Remove(path)
           ELSE UNCHANGED <<fs, log>>
        /\ todo' = todo \ {path}
    /\ UNCHANGED <<pc, exit_code>>
    /\ DeleteUnchanged

\* Line 193 without the difference: every .pdf found is unused.
DeletePdfStart_AllPdfs ==
    /\ pc = "deleting_tex"
    /\ todo = {}
    /\ todo' = IF args.delete_unused_pdf
               THEN GlobRecursive(fs, dirs, Cwd, ext_pdf)
               ELSE {}
    /\ pc' = "deleting_pdf"
    /\ UNCHANGED <<fs, log, exit_code>>
    /\ DeleteUnchanged

\* lines 189-193, with find_all_pdfs_in_project, lines 153-160
DeletePdfStart ==
    /\ pc = "deleting_tex"
    /\ todo = {}
    /\ todo' = IF args.delete_unused_pdf
               THEN GlobRecursive(fs, dirs, Cwd, ext_pdf) \ used_pdfs
               ELSE {}
    /\ pc' = "deleting_pdf"
    /\ UNCHANGED <<fs, log, exit_code>>
    /\ DeleteUnchanged

\* lines 201-211, one file
DeletePdfFile ==
    /\ pc = "deleting_pdf"
    /\ \E path \in todo :
        /\ Remove(path)
        /\ todo' = todo \ {path}
    /\ UNCHANGED <<pc, exit_code>>
    /\ DeleteUnchanged

\* lines 287-289: main returns and the process exits with code 0.
Finish ==
    /\ pc = "deleting_pdf"
    /\ todo = {}
    /\ exit_code' = 0
    /\ pc' = "exited"
    /\ UNCHANGED <<fs, dirs, content, log>>
    /\ MainUnchanged

\* lines 291-295
HandleError ==
    /\ pc = "raised"
    /\ log' = Append(log, <<"Failed", args.input_file>>)
    /\ exit_code' = 1
    /\ pc' = "exited"
    /\ UNCHANGED <<fs, dirs, content>>
    /\ MainUnchanged

(***************************************************************************)
(* The values of the variables a specification does not use.               *)
(***************************************************************************)
NoArgs == [input_file |-> <<>>, output_file |-> <<>>,
           delete_tex |-> FALSE, delete_unused_pdf |-> FALSE]

IdleExcept(p, c, h) ==
    /\ pc = p
    /\ content = c
    /\ hist = h
    /\ args = NoArgs
    /\ fs = <<>>
    /\ dirs = {}
    /\ stack = <<>>
    /\ retval = <<>>
    /\ used_pdfs = {}
    /\ todo = {}
    /\ log = <<>>
    /\ exit_code = -1

(***************************************************************************)
(* Claims are stated over texts by position. Escaped and Bare say what a   *)
(* percent sign is in the words of the specification, not of the pattern.  *)
(***************************************************************************)
Escaped(s, i) == s[i] = "%" /\ i > 1 /\ s[i - 1] = BS
Bare(s, i) == s[i] = "%" /\ ~Escaped(s, i)
EscapedCount(s) == Cardinality({ i \in 1..Len(s) : Escaped(s, i) })

\* The characters of s at the indices in K, in order.
SubseqAt(s, K) ==
    LET tagged == [i \in 1..Len(s) |-> <<i, s[i]>>]
        kept == SelectSeq(tagged, LAMBDA p : p[1] \in K)
    IN  [r \in 1..Len(kept) |-> kept[r][2]]

\* The index at which the line of s[i] starts.
LineStart(s, i) ==
    LET nls == { j \in 1..(i - 1) : s[j] = NL }
    IN  IF nls = {} THEN 1 ELSE 1 + CHOOSE j \in nls : \A k \in nls : k <= j

\* s[i] stands in a line comment: at or after a bare % of its own line.
InLineComment(s, i) ==
    s[i] # NL /\ \E j \in LineStart(s, i)..i : Bare(s, j)

(***************************************************************************)
(* remove_comments applied to a text, and again to its own result.         *)
(***************************************************************************)
StripMaxChunks == 5
EnvMaxChunks == 4

StripChunks ==
    { <<"%">>, <<BS>>, <<NL>>, Chars("\\iffalse"), Chars("\\fi"),
      Chars("\\iff"), Chars("alse") }

EnvChunks == { Chars("\\begin{comment}"), Chars("\\end {comment}") }

InitStrip ==
    \E t \in TextsOf(StripChunks, StripMaxChunks)
             \cup TextsOf(StripChunks \cup EnvChunks, EnvMaxChunks) :
        IdleExcept("strip", t, [input |-> t, after_line |-> <<>>,
                                results |-> <<>>])

PureUnchanged ==
    UNCHANGED <<args, fs, dirs, stack, retval, used_pdfs, todo, log, exit_code>>

\* A call of remove_comments (lines 11-20) on `content`; the caller then
\* hands the result to a second call. after_line keeps what line 14 left.
Strip ==
    LET afterLine == RemoveLineComments(content)
        result == RemoveIfFalse(RemoveCommentEnv(afterLine))
    IN  /\ pc = "strip"
        /\ content' = result
        /\ hist' = [hist EXCEPT
                      !.results = Append(@, result),
                      !.after_line = IF hist.results = <<>> THEN afterLine ELSE @]
        /\ pc' = IF hist.results = <<>> THEN "strip" ELSE "strip_done"
        /\ PureUnchanged

NextStrip == Strip

SpecStrip == InitStrip /\ [][NextStrip]_vars

\* C4 (as claimed): remove_comments is idempotent: a second application
\* returns what the first returned.
C4_Idempotent ==
    Len(hist.results) = 2 => hist.results[2] = hist.results[1]

\* C5 (as claimed): remove_comments removes no escaped percent of T, and it
\* removes every bare percent with the text after it on its line, keeping
\* the newline.
C5_EscapedNeverRemoved ==
    Len(hist.results) >= 1 =>
        /\ EscapedCount(hist.results[1]) >= EscapedCount(hist.input)
        /\ hist.after_line =
             SubseqAt(hist.input,
                      { i \in 1..Len(hist.input) : ~InLineComment(hist.input, i) })

\* C5 (amended): the line-comment pass removes exactly the line comments:
\* on each line the text from the first bare percent to the end of the line,
\* the newline kept. An escaped percent never starts a comment, and it
\* survives the pass exactly when no bare percent stands before it on its
\* line. No bare percent is left in what remove_comments returns.
C5_LineCommentsRemoved ==
    Len(hist.results) = 1 =>
        LET T == hist.input
            R == hist.results[1]
        IN  /\ hist.after_line =
                 SubseqAt(T, { i \in 1..Len(T) : ~InLineComment(T, i) })
            /\ EscapedCount(hist.after_line) =
                 Cardinality({ i \in 1..Len(T) :
                                 Escaped(T, i) /\ ~InLineComment(T, i) })
            /\ \A i \in 1..Len(R) : ~Bare(R, i)

\* C5's case: a text with an escaped percent that is kept and a bare percent
\* whose comment is removed.
C5_Witness ==
    /\ Len(hist.results) = 1
    /\ EscapedCount(hist.results[1]) > 0
    /\ \E i \in 1..Len(hist.input) : Bare(hist.input, i)
    /\ \E i \in 1..Len(hist.input) :
          Escaped(hist.input, i) /\ InLineComment(hist.input, i)

(***************************************************************************)
(* remove_excessive_blank_lines applied to a text.                         *)
(***************************************************************************)
BlankMaxLen == 7

BlankChunks == { <<NL>>, <<" ">>, <<TAB>>, <<"a">> }

InitBlank ==
    \E t \in TextsOf(BlankChunks, BlankMaxLen) :
        IdleExcept("blank", t, [input |-> t])

\* A call of remove_excessive_blank_lines (lines 22-32) on `content`.
Normalize ==
    /\ pc = "blank"
    /\ content' = remove_excessive_blank_lines(content)
    /\ pc' = "blank_done"
    /\ UNCHANGED hist
    /\ PureUnchanged

NextBlank == Normalize

SpecBlank == InitBlank /\ [][NextBlank]_vars

\* A newline run: newlines with nothing but spaces and tabs between them.
\* NlRunFirst and NlRunLast are the first and the last newline of the run
\* that reaches s[i] (0 when s[i] lies in no run).
IsBlankOrNl(c) == c \in {" ", TAB, NL}

NlRunFirst(s, i) ==
    LET c == { j \in 1..i : s[j] = NL /\ \A k \in j..i : IsBlankOrNl(s[k]) }
    IN  IF c = {} THEN 0 ELSE CHOOSE j \in c : \A k \in c : j <= k

NlRunLast(s, i) ==
    LET c == { j \in i..Len(s) : s[j] = NL /\ \A k \in i..j : IsBlankOrNl(s[k]) }
    IN  IF c = {} THEN 0 ELSE CHOOSE j \in c : \A k \in c : k <= j

NlCount(s, f, l) == Cardinality({ k \in f..l : s[k] = NL })

\* s[i] lies strictly inside a run of at least n newlines.
InsideNlRun(s, i, n) ==
    LET f == NlRunFirst(s, i)
        l == NlRunLast(s, i)
    IN  f # 0 /\ l # 0 /\ f < i /\ i < l /\ NlCount(s, f, l) >= n

\* The text with every run of at least n newlines cut down to its first and
\* its last newline: what is between two lines is then one blank line.
CollapseRuns(s, n) ==
    SubseqAt(s, { i \in 1..Len(s) : ~InsideNlRun(s, i, n) })

ExpandMaxChunks == 2

ExpandChunks ==
    { Chars("\\input{a}"), Chars("\\include { b }"), Chars("\\input"),
      Chars("{b}"), Chars("x"), Chars("\\input{m}") }

path_a == Chars("/w/a.tex")
path_b == Chars("/w/b.tex")
path_c == Chars("/w/sub/c.tex")

ContentsOfA ==
    { Chars("y"), Chars("\\input"), Chars("\\input{b}"), Chars("\\input{a}"),
      Chars("%\\input{m}\nz") }
ContentsOfB == { Chars("z"), Chars("\\input{a}"), Chars("\\input{sub/c}") }
ContentsOfC == { Chars("w"), Chars("w\\input{c}") }

\* The files with the paths in `paths`, each with one of its contents.
IncludeFiles ==
    UNION { { f \in [S -> ContentsOfA \cup ContentsOfB \cup ContentsOfC] :
                /\ path_a \in S => f[path_a] \in ContentsOfA
                /\ path_b \in S => f[path_b] \in ContentsOfB
                /\ path_c \in S => f[path_c] \in ContentsOfC }
            : S \in SUBSET {path_a, path_b, path_c} }

DirsOf(f) == {Cwd} \cup UNION { Ancestors(path) : path \in DOMAIN f }

InitExpand ==
    \E t \in TextsOf(ExpandChunks, ExpandMaxChunks), f \in IncludeFiles :
        /\ pc = "expanding"
        /\ content = t
        /\ fs = f
        /\ dirs = DirsOf(f)
        /\ stack = <<NewFrame(t, Cwd)>>
        /\ hist = [input |-> t, max_depth |-> 0, cuts |-> {}]
        /\ args = NoArgs
        /\ retval = <<>>
        /\ used_pdfs = {}
        /\ todo = {}
        /\ log = <<>>
        /\ exit_code = -1

NextExpand == Expand

SpecExpand == InitExpand /\ [][NextExpand]_vars

\* The program is sequential: a call that can take a step takes it.
SpecExpandFair == SpecExpand /\ WF_vars(NextExpand)

(***************************************************************************)
(* The include graph of a document, and its full expansion.                *)
(***************************************************************************)
\* The file names of the directives of a text.
RECURSIVE Directives(_, _)
Directives(s, i) ==
    LET m == NextInputMatch(s, i)
    IN  IF m.start = 0 THEN {} ELSE {m.group} \cup Directives(s, m.end)

TargetsOf(text, base_dir) ==
    { IncludePath(g, base_dir) : g \in Directives(text, 1) }

FileTargets(f, path) == TargetsOf(remove_comments(f[path]), Dirname(path))

\* The files reachable from the targets T over directives.
RECURSIVE Reachable(_, _, _)
Reachable(f, T, seen) ==
    LET fresh == (T \cap DOMAIN f) \ seen
    IN  IF fresh = {} THEN seen
        ELSE Reachable(f, UNION { FileTargets(f, p) : p \in fresh },
                       seen \cup fresh)

AllTargetsExist(f, text, base_dir) ==
    LET T == TargetsOf(text, base_dir)
    IN  /\ T \subseteq DOMAIN f
        /\ \A p \in Reachable(f, T, {}) : FileTargets(f, p) \subseteq DOMAIN f

SetMax(S) == IF S = {} THEN 0 ELSE CHOOSE x \in S : \A y \in S : y <= x

\* The length of the longest chain of nested includes below the targets T,
\* followed for at most `fuel` files.
RECURSIVE ChainLength(_, _, _)
ChainLength(f, T, fuel) ==
    IF fuel = 0 \/ T \cap DOMAIN f = {} THEN 0
    ELSE 1 + SetMax({ ChainLength(f, FileTargets(f, p), fuel - 1) :
                        p \in T \cap DOMAIN f })

\* A chain longer than the number of files passes through a file twice.
Cyclic(f, text, base_dir) ==
    ChainLength(f, TargetsOf(text, base_dir), Cardinality(DOMAIN f) + 1)
        > Cardinality(DOMAIN f)

NestingDepth(f, text, base_dir) ==
    ChainLength(f, TargetsOf(text, base_dir), Cardinality(DOMAIN f))

\* The text with every directive replaced by the full expansion of the
\* comment-stripped file it names, and by nothing where no such file exists.
\* Defined for acyclic include graphs only.
RECURSIVE FullExpansion(_, _, _)
FullExpansion(f, text, base_dir) ==
    LET m == NextInputMatch(text, 1)
        path == IncludePath(m.group, base_dir)
    IN  IF m.start = 0 THEN text
        ELSE SubSeq(text, 1, m.start - 1)
             \o (IF path \in DOMAIN f
                 THEN FullExpansion(f, remove_comments(f[path]), Dirname(path))
                 ELSE <<>>)
             \o FullExpansion(f, SubSeq(text, m.end, Len(text)), base_dir)

\* The places of s where the directive pattern matches.
DirectiveStarts(s) ==
    { i \in 1..Len(s) : s[i] = BS /\ InputMatchAt(s, i).start # 0 }

\* The match at i lies across one of the offsets in `cuts`.
AcrossCut(s, i, cuts) ==
    \E c \in cuts : i <= c /\ c <= InputMatchAt(s, i).end - 2

Resolvable == AllTargetsExist(fs, hist.input, Cwd) /\ ~Cyclic(fs, hist.input, Cwd)

\* C6 as stated: when every include target exists and the include graph is
\* acyclic, the returned text is the full expansion of the document and no
\* directive is left in it.
C6_NoResidualDirective ==
    (pc = "expanded" /\ Resolvable)
        => /\ retval = FullExpansion(fs, hist.input, Cwd)
           /\ DirectiveStarts(retval) = {}

\* C6, amended: when every include target exists, the include graph is
\* acyclic and its nesting depth is below the recursion limit, the returned
\* text is the full expansion of the document: each directive is replaced by
\* the expansion of its comment-stripped target and the other text is kept
\* verbatim. A directive pattern that matches in the returned text lies
\* across a place where two pieces were put together.
C6_FullExpansion ==
    (/\ pc = "expanded"
     /\ Resolvable
     /\ NestingDepth(fs, hist.input, Cwd) < RecursionLimit)
        => /\ retval = FullExpansion(fs, hist.input, Cwd)
           /\ \A i \in DirectiveStarts(retval) : AcrossCut(retval, i, hist.cuts)

C6_Witness ==
    /\ pc = "expanded"
    /\ Resolvable
    /\ NestingDepth(fs, hist.input, Cwd) = 2
    /\ Cardinality(Directives(hist.input, 1)) = 2
    /\ DirectiveStarts(retval) = {}
    /\ retval # <<>>
    /\ log = <<>>

ErrorLogged == \E k \in 1..Len(log) : log[k][1] = "Error"

\* C10 as stated: over an acyclic include graph the call returns with a
\* recursion depth equal to the nesting depth, and over a cyclic one it
\* never returns.
C10_CyclicNeverReturns ==
    /\ (pc = "expanded" /\ ~Cyclic(fs, hist.input, Cwd))
          => hist.max_depth = NestingDepth(fs, hist.input, Cwd)
    /\ Cyclic(fs, hist.input, Cwd) => pc # "expanded"

\* What holds of a call that has returned.
C10_DepthOnReturn ==
    /\ pc = "expanded"
    /\ hist.max_depth < RecursionLimit
    /\ LET depth == NestingDepth(fs, hist.input, Cwd)
       IN  IF ~Cyclic(fs, hist.input, Cwd) /\ depth < RecursionLimit
           THEN hist.max_depth = depth /\ ~ErrorLogged
           ELSE hist.max_depth = RecursionLimit - 1 /\ ErrorLogged

\* C10, amended: every call returns. Over an acyclic include graph whose
\* nesting depth is below the recursion limit the recursion depth is the
\* nesting depth; over a cyclic or deeper one the recursion goes down to the
\* recursion limit, where the RecursionError is caught as an error of the
\* include and reported, and the call still returns.
C10_ReturnsWithinLimit == <>C10_DepthOnReturn

C10_Witness ==
    /\ pc = "expanded"
    /\ Cyclic(fs, hist.input, Cwd)
    /\ hist.max_depth = RecursionLimit - 1
    /\ ErrorLogged

(***************************************************************************)
(* The reference scanner on its own: find_used_pdfs(T) over a directory of *)
(* graphics files.                                                         *)
(***************************************************************************)
ScanMaxChunks == 2

ScanChunks ==
    { Chars("\\includegraphics{p}"),
      Chars("\\includegraphics[w=1]{img/p.pdf}"),
      Chars("\\includegraphics{d.png}"),
      Chars("\\IncludePDF{ Q.PDF }"),
      Chars("\\pdfximage{p}"),
      Chars("\\caption{see p.pdf}") }

GraphicsPaths ==
    { Chars("/w/p.pdf"), Chars("/w/figures/p.pdf"), Chars("/w/images/p.pdf"),
      Chars("/w/img/p.pdf"), Chars("/w/graphics/p.pdf"),
      Chars("/w/graphics/Q.PDF") }

InitScan ==
    \E t \in TextsOf(ScanChunks, ScanMaxChunks), S \in SUBSET GraphicsPaths :
        /\ pc = "scanning"
        /\ content = t
        /\ fs = [path \in S |-> <<>>]
        /\ dirs = DirsOf(fs)
        /\ stack = <<[pattern |-> 1, pos |-> 1]>>
        /\ used_pdfs = {}
        /\ hist = [input |-> t, matches |-> <<>>]
        /\ args = NoArgs
        /\ retval = <<>>
        /\ todo = {}
        /\ log = <<>>
        /\ exit_code = -1

NextScan == Scan

SpecScan == InitScan /\ [][NextScan]_vars

\* The places a candidate is looked for, in the order of the claim: the
\* literal path, then '.', 'figures', 'images', 'img', 'graphics' joined
\* with it.
PlacesOf(candidate) ==
    <<candidate,
      PathJoin(Chars("."), candidate),
      PathJoin(Chars("figures"), candidate),
      PathJoin(Chars("images"), candidate),
      PathJoin(Chars("img"), candidate),
      PathJoin(Chars("graphics"), candidate)>>

\* What a reference with this file name resolves to: nothing when the name
\* has an extension other than .pdf; otherwise the first place that exists.
ResolutionOf(f, d, group) ==
    LET name == StripSpace(group)
        candidate == IF EndsWithPdf(name) THEN name ELSE name \o ext_pdf
        places == PlacesOf(candidate)
        found == { k \in DOMAIN places : Exists(f, d, places[k]) }
    IN  IF ~EndsWithPdf(name) /\ SplitExt(Basename(name)) # <<>> THEN {}
        ELSE IF found = {} THEN {}
        ELSE { AbsPath(places[CHOOSE k \in found : \A n \in found : k <= n]) }

\* C9: for every reference matched so far, a name without extension is
\* looked for with .pdf appended, a name with another extension adds
\* nothing, and a .pdf candidate adds the literal path if it exists,
\* otherwise the first existing path among '.', 'figures', 'images', 'img',
\* 'graphics' joined with it, otherwise nothing. So each reference adds at
\* most one path, and every path of the result is the absolute path of an
\* existing file that ends in .pdf (letters compared without case, as the
\* code compares them).
C9_Resolution ==
    /\ \A n \in DOMAIN hist.matches :
        /\ hist.matches[n].added = ResolutionOf(fs, dirs, hist.matches[n].group)
        /\ Cardinality(hist.matches[n].added) <= 1
    /\ used_pdfs = UNION { hist.matches[n].added : n \in DOMAIN hist.matches }
    /\ \A path \in used_pdfs :
        IsAbs(path) /\ path \in DOMAIN fs /\ EndsWithPdf(path)

C9_Witness ==
    /\ pc = "scanned"
    /\ \E n \in DOMAIN hist.matches :
        /\ StripSpace(hist.matches[n].group) = <<"p">>
        /\ hist.matches[n].added = {Chars("/w/images/p.pdf")}
    /\ \E n \in DOMAIN hist.matches :
        /\ SplitExt(hist.matches[n].group) = Chars(".png")
        /\ hist.matches[n].added = {}
    /\ Chars("/w/graphics/p.pdf") \in DOMAIN fs
    /\ Chars("/w/p.pdf") \notin DOMAIN fs

(***************************************************************************)
(* A run of main. The working directory holds main.tex, which includes     *)
(* a.tex and a file that is not there, a.tex which shows a figure or       *)
(* includes a file below a.tex, a source in a subdirectory, a source and a *)
(* figure in a                                                             *)
(* hidden directory, and figures. The command line names the main file and *)
(* an output beside it, below it or below a regular file, the main file    *)
(* twice, a file that is not there, or a directory.                        *)
(***************************************************************************)
MainMaxChunks == 2

MainChunks ==
    { Chars("\\input{a}"), Chars("\\input{m}"), Chars("\\includegraphics{p}") }

path_main == Chars("/w/main.tex")
path_sub_b == Chars("/w/sub/b.tex")
path_hidden_tex == Chars("/w/.h/h.tex")
path_p == Chars("/w/p.pdf")
path_q == Chars("/w/figures/q.pdf")
path_hidden_pdf == Chars("/w/.h/h.pdf")

MainContentsOfA == { Chars("\\includegraphics{q}"), Chars("\\input{a.tex/x}") }

ProjectFiles ==
    { [path \in {path_main, path_sub_b, path_hidden_tex} \cup A \cup P |->
          IF path = path_main THEN t
          ELSE IF path = path_a THEN a
          ELSE IF path \in {path_sub_b, path_hidden_tex} THEN Chars("x")
          ELSE <<>>] :
        t \in TextsOf(MainChunks, MainMaxChunks),
        a \in MainContentsOfA,
        A \in {{}, {path_a}},
        P \in SUBSET {path_p, path_q, path_hidden_pdf} }

ProjectDirs == { Cwd, Chars("/w/figures"), Chars("/w/sub"), Chars("/w/.h") }

CommandLines ==
    { [input_file |-> Chars(io[1]), output_file |-> Chars(io[2]),
       delete_tex |-> dt, delete_unused_pdf |-> dp] :
        io \in { <<"main.tex", "out.tex">>, <<"main.tex", "sub/out.tex">>,
                 <<"main.tex", "./main.tex">>, <<"nofile.tex", "out.tex">>,
                 <<"figures", "out.tex">>, <<"main.tex", "main.tex/out.tex">> },
        dt \in BOOLEAN, dp \in BOOLEAN }

Init ==
    \E f \in ProjectFiles, a \in CommandLines :
        /\ pc = "check_exists"
        /\ args = a
        /\ fs = f
        /\ dirs = ProjectDirs
        /\ content = <<>>
        /\ stack = <<>>
        /\ retval = <<>>
        /\ used_pdfs = {}
        /\ todo = {}
        /\ log = <<>>
        /\ exit_code = -1
        /\ hist = [input |-> f[path_main], max_depth |-> 0, cuts |-> {},
                   matches |-> <<>>, fs0 |-> f, dirs0 |-> ProjectDirs]

Next ==
    \/ CheckInputExists
    \/ CheckSamePath
    \/ ReadMain
    \/ ReadFault
    \/ StripMain
    \/ ExpandMain
    \/ Expand
    \/ NormalizeMain
    \/ ScanMain
    \/ Scan
    \/ MakeDirs
    \/ WriteOutput
    \/ WriteFault
    \/ DeleteTexStart
    \/ DeleteTexFile
    \/ DeletePdfStart
    \/ DeletePdfFile
    \/ Finish
    \/ HandleError

Spec == Init /\ [][Next]_vars

(***************************************************************************)
(* What a run shows: the lines it prints, the files it leaves.             *)
(***************************************************************************)
LogIndex(tags) == { k \in DOMAIN log : log[k][1] \in tags }

Logged(tags) == { log[k][2] : k \in LogIndex(tags) }

Attempts == LogIndex({"Deleted", "CannotDelete"})

HasSuffix(path, ext) == HasAt(path, Len(path) - Len(ext) + 1, ext)

InputPath == AbsPath(args.input_file)

OutputPath == AbsPath(args.output_file)

ChecksPass ==
    /\ InputPath \in DOMAIN hist.fs0 \cup hist.dirs0
    /\ InputPath # OutputPath

RunDone == pc = "exited" /\ exit_code = 0

\* A directory or a file whose name starts with a dot lies between root
\* and the end of the path.
HiddenBelow(root, path) ==
    \E k \in (Len(root) + 1)..(Len(path) - 1) :
        path[k] = SLASH /\ path[k + 1] = DOT

\* The files of f below root with the suffix ext.
FilesBelow(f, root, ext) ==
    { path \in DOMAIN f : Below(root, path) /\ HasSuffix(path, ext) }

\* Those of them a recursive search from root finds: no name on the way
\* starts with a dot.
FoundBelow(f, root, ext) ==
    { path \in FilesBelow(f, root, ext) : ~HiddenBelow(root, path) }

Lost == DOMAIN hist.fs0 \ DOMAIN fs

Gone(ext) == { path \in Lost : HasSuffix(path, ext) }

Tried(ext) ==
    { path \in Logged({"Deleted", "CannotDelete"}) : HasSuffix(path, ext) }

\* C2: nothing is written, created or deleted unless both path checks have
\* passed; every deletion attempt comes after the line that reports the
\* complete write, with the output file holding the whole text; a run whose
\* checks fail ends with code 1 and every file as it was; a run in which an
\* error is raised has attempted no deletion, has lost no file and ends with
\* code 1.
C2_ChecksThenWriteThenDelete ==
    /\ (fs # hist.fs0 \/ dirs # hist.dirs0 \/ Attempts # {}) => ChecksPass
    /\ \A k \in Attempts : \E w \in LogIndex({"Written"}) : w < k
    /\ Attempts # {} => IsFile(fs, OutputPath) /\ fs[OutputPath] = content
    /\ Lost # {} => Attempts # {}
    /\ (pc = "exited" /\ ~ChecksPass)
          => exit_code = 1 /\ fs = hist.fs0 /\ dirs = hist.dirs0
    /\ (pc = "raised" \/ LogIndex({"Failed"}) # {})
          => /\ Attempts = {}
             /\ Lost = {}
             /\ pc = "exited" => exit_code = 1

C2_Witness ==
    /\ pc = "exited"
    /\ exit_code = 1
    /\ ChecksPass
    /\ args.delete_tex
    /\ args.delete_unused_pdf
    /\ content # <<>>
    /\ IsFile(fs, OutputPath)
    /\ fs[OutputPath] = <<>>
    /\ Attempts = {}

RECURSIVE GroupsFrom(_, _, _)
GroupsFrom(s, i, k) ==
    LET m == NextPatternMatch(s, i, k)
    IN  IF m.start = 0 THEN {} ELSE {m.group} \cup GroupsFrom(s, m.end, k)

\* The .pdf files the graphics commands of the written text refer to.
Referenced ==
    UNION { ResolutionOf(hist.fs0, hist.dirs0, g) :
              g \in UNION { GroupsFrom(content, 1, k) : k \in 1..NumPatterns } }

AllDeletionsSucceed == LogIndex({"CannotDelete"}) = {}

MainText == remove_comments(hist.fs0[InputPath])

MainDir == Dirname(InputPath)

\* The include targets of the document, at any depth.
AllTargets(f, text, base_dir) ==
    TargetsOf(text, base_dir)
        \cup UNION { FileTargets(f, path) :
                       path \in Reachable(f, TargetsOf(text, base_dir), {}) }

\* Those that are not there.
MissingTargets(f, text, base_dir) == AllTargets(f, text, base_dir) \ DOMAIN f

\* Those that are not there because a regular file stands where the path
\* needs a directory: open raises NotADirectoryError, not FileNotFoundError.
BlockedTargets(f, text, base_dir) ==
    { path \in MissingTargets(f, text, base_dir) :
        Ancestors(path) \cap DOMAIN f # {} }

Expandable ==
    /\ ChecksPass
    /\ IsFile(hist.fs0, InputPath)
    /\ ~Cyclic(hist.fs0, MainText, MainDir)
    /\ NestingDepth(hist.fs0, MainText, MainDir) < RecursionLimit

\* The run is over and has met no failure of reading or writing.
Unfailed == pc = "exited" /\ LogIndex({"Failed"}) = {}

\* The text a missing include leaves behind: each directive naming a file
\* that is not there is replaced by nothing, the other directives are
\* expanded and the text around them is kept; a run that meets no failure of
\* reading or writing ends with code 0 and that text, blank lines
\* normalised, in the output.
C8_Continues ==
    /\ (pc = "expanded" /\ Expandable)
          => retval = FullExpansion(hist.fs0, MainText, MainDir)
    /\ (Unfailed /\ Expandable)
          => /\ exit_code = 0
             /\ content = remove_excessive_blank_lines(
                              FullExpansion(hist.fs0, MainText, MainDir))
             /\ IsFile(fs, OutputPath)
             /\ fs[OutputPath] = content

\* C8 as stated: every directive that names a file that is not there gets a
\* warning and nothing in its place, the rest of the text is kept and
\* expanded, and the run goes on to exit code 0.
C8_WarningForEveryMissing ==
    /\ C8_Continues
    /\ ((pc = "expanded" \/ Unfailed) /\ Expandable)
          => Logged({"Warning"}) = MissingTargets(hist.fs0, MainText, MainDir)

\* The lines printed for the missing targets.
C8_Diagnostics ==
    ((pc = "expanded" \/ Unfailed) /\ Expandable)
        => /\ Logged({"Warning"}) =
                 MissingTargets(hist.fs0, MainText, MainDir)
                    \ BlockedTargets(hist.fs0, MainText, MainDir)
           /\ Logged({"Error"}) = BlockedTargets(hist.fs0, MainText, MainDir)

\* C8, amended: a directive that names a file that is not there gets nothing
\* in its place, the text outside directives is kept, the later directives
\* are expanded, and the expansion never ends the run: from the expansion
\* the run goes on to the expanded text, and from there, unless reading or
\* writing fails, to the written output and exit code 0. The line printed is
\* the warning when open raises FileNotFoundError, and the error line when a
\* regular file stands where the path needs a directory.
C8_MissingInclude ==
    /\ [](C8_Continues /\ C8_Diagnostics)
    /\ [][pc = "expanding" => pc' \in {"expanding", "expanded"}]_vars

C8_Witness ==
    /\ RunDone
    /\ Expandable
    /\ hist.fs0[path_main] = Chars("\\input{m}\\input{a}")
    /\ Logged({"Warning"}) = {Chars("/w/m.tex")}
    /\ content = Chars("\\includegraphics{q}")
    /\ fs[OutputPath] = content

=============================================================================
